---- MODULE Spec2Model ----
(***************************************************************************)
(* The anime character name game of Tika_Bot (src/cogs/anime_game.py):     *)
(* the AnimeNameGame cog's per-guild state, its message handler and its    *)
(* slash commands, as the asyncio event loop runs them: every action is    *)
(* one stretch of a coroutine between two awaits.                          *)
(***************************************************************************)
EXTENDS Integers, Sequences, FiniteSets, Bags, TLC

(***************************************************************************)
(* Bounds of the model.                                                    *)
(***************************************************************************)
MaxTime == 11          \* the clock stops advancing here
MaxTasks == 2          \* coroutines in flight at once
MaxMessages == 2       \* letter challenges posted in one run
MaxElapsed == 1850     \* largest response time given to calculate_xp on its own
MaxStarts == 2         \* processes started after the first
MaxPlayers == 21       \* users with a score in the guild whose leaderboard is read

Guilds == {1, 2}
Users == {1, 2}
Channels == {1, 2}
TickSteps == {11}

(***************************************************************************)
(* Text.  A string is a sequence of characters; a character is a           *)
(* one-element name.  "FW_A" and "fw_a" stand for the fullwidth forms      *)
(* U+FF21 and U+FF41 of A and a.                                           *)
(***************************************************************************)
Whitespace == {" "}
Alpha == {"A", "L", "a", "l", "FW_A", "fw_a"}
Digits == {"1"}
WordChars == Alpha \cup Digits \cup {"_"}

\* str.lower() on one character
lower_char(c) ==
    CASE c = "A" -> "a"
      [] c = "L" -> "l"
      [] c = "FW_A" -> "fw_a"
      [] OTHER -> c

\* str.lower()
lower(s) == [i \in 1..Len(s) |-> lower_char(s[i])]

\* unicodedata.normalize('NFKD', c) on one character: the compatibility
\* decomposition of a fullwidth letter is the plain letter
nfkd_char(c) ==
    CASE c = "FW_A" -> "A"
      [] c = "fw_a" -> "a"
      [] OTHER -> c

nfkd(s) == [i \in 1..Len(s) |-> nfkd_char(s[i])]

\* str.strip(): leading and trailing whitespace removed
RECURSIVE lstrip(_)
lstrip(s) ==
    IF s # <<>> /\ Head(s) \in Whitespace THEN lstrip(Tail(s)) ELSE s

RECURSIVE rstrip(_)
rstrip(s) ==
    IF s # <<>> /\ s[Len(s)] \in Whitespace
    THEN rstrip(SubSeq(s, 1, Len(s) - 1))
    ELSE s

strip(s) == rstrip(lstrip(s))

\* ' '.join(s.split()) on a stripped string: every run of whitespace
\* becomes one space
RECURSIVE join_split(_)
join_split(s) ==
    IF s = <<>> THEN <<>>
    ELSE IF Head(s) \in Whitespace
         THEN <<" ">> \o join_split(lstrip(s))
         ELSE <<Head(s)>> \o join_split(Tail(s))

normalize_name(name) == nfkd(lower(join_split(strip(name))))

\* re.sub(r'[^\w]', '', s)
RECURSIVE word_chars_only(_)
word_chars_only(s) ==
    IF s = <<>> THEN <<>>
    ELSE IF Head(s) \in WordChars
         THEN <<Head(s)>> \o word_chars_only(Tail(s))
         ELSE word_chars_only(Tail(s))

RECURSIVE first_alpha(_)
first_alpha(s) ==
    IF s = <<>> THEN ""
    ELSE IF Head(s) \in Alpha THEN Head(s) ELSE first_alpha(Tail(s))

\* A variant of get_first_letter: the first character that is left counts,
\* letter or not.
get_first_letter_any(name) ==
    LET clean_name == word_chars_only(lower(name))
    IN  IF clean_name # <<>> THEN clean_name[1] ELSE ""

\* lines 100-109
get_first_letter(name) ==
    LET clean_name == word_chars_only(lower(name))
    IN  IF first_alpha(clean_name) # "" THEN first_alpha(clean_name)
        ELSE IF clean_name # <<>> THEN clean_name[1] ELSE ""

\* str.startswith(('/', '!!'))
is_command(s) ==
    \/ Len(s) >= 1 /\ s[1] = "/"
    \/ Len(s) >= 2 /\ s[1] = "!" /\ s[2] = "!"

\* A variant of calculate_xp: the two fastest tiers are exchanged.
calculate_xp_rising(time_taken) ==
    IF time_taken <= 10 THEN 2000
    ELSE IF time_taken <= 20 THEN 3000
    ELSE IF time_taken <= 30 THEN 1500
    ELSE IF time_taken <= 60 THEN 1000
    ELSE IF time_taken <= 300 THEN 500
    ELSE IF time_taken <= 1800 THEN 200
    ELSE 50

\* A variant of calculate_xp: every answer gets the highest tier.
calculate_xp_flat(time_taken) == 3000

\* A variant of calculate_xp: the boundaries are exclusive.
calculate_xp_exclusive(time_taken) ==
    IF time_taken < 10 THEN 3000
    ELSE IF time_taken < 20 THEN 2000
    ELSE IF time_taken < 30 THEN 1500
    ELSE IF time_taken < 60 THEN 1000
    ELSE IF time_taken < 300 THEN 500
    ELSE IF time_taken < 1800 THEN 200
    ELSE 50

calculate_xp(time_taken) ==
    IF time_taken <= 10 THEN 3000
    ELSE IF time_taken <= 20 THEN 2000
    ELSE IF time_taken <= 30 THEN 1500
    ELSE IF time_taken <= 60 THEN 1000
    ELSE IF time_taken <= 300 THEN 500
    ELSE IF time_taken <= 1800 THEN 200
    ELSE 50

\* The message texts the players send.
RawTexts == {
    <<"A", " ", "l">>,                         \* "A l"
    <<" ", "fw_a", " ", " ", "L", " ">>,       \* " a  L ", its a fullwidth
    <<"L", "a">>,                              \* "La"
    <<"1">>,                                   \* "1"
    <<" ">>,                                   \* " "
    <<"/", "a", "l">>,                         \* "/al"
    <<"!", "!", "a", "l">>                     \* "!!al"
}

\* The letters random.choices draws (every weight of letter_weights is
\* positive, so each of the 26 can be drawn; the texts above answer "a").
Letters == {"a"}

(***************************************************************************)
(* Python dicts are functions; a key is present when it is in the DOMAIN.  *)
(***************************************************************************)
EmptyDict == [k \in {} |-> 0]

DictSet(d, k, v) == [x \in DOMAIN d \cup {k} |-> IF x = k THEN v ELSE d[x]]

DictGet(d, k, default) == IF k \in DOMAIN d THEN d[k] ELSE default

\* A dict whose order of insertion is read (user_scores[guild_id], which the
\* leaderboard sorts) is the sequence of its items <<key, value>>.
Keys(items) == {items[i][1] : i \in 1..Len(items)}

ItemGet(items, k, default) ==
    IF k \in Keys(items)
    THEN items[CHOOSE i \in 1..Len(items) : items[i][1] = k][2]
    ELSE default

ItemSet(items, k, v) ==
    IF k \in Keys(items)
    THEN [i \in 1..Len(items) |-> IF items[i][1] = k THEN <<k, v>> ELSE items[i]]
    ELSE Append(items, <<k, v>>)

\* str(k) and int(s) on the identifiers of guilds and users
str(k) == CASE k = 1 -> "1" [] k = 2 -> "2"

int(s) == CASE s = "1" -> 1 [] s = "2" -> 2

VARIABLES
    game_channels,    \* guild_id -> [channel_id]
    used_names,       \* guild_id -> set of normalized names
    user_scores,      \* guild_id -> (user_id -> xp)
    current_letters,  \* guild_id -> {} or [letter, timestamp, message_id, active]
    store,            \* what save_data wrote last (ANIME_GAME_DATA and the file)
    now,              \* time.time()
    tasks,            \* the bag of suspended coroutines
    outcome,          \* what the last step answered to a message, if it did
    next_message_id,  \* the id Discord gives the next challenge message
    wins,             \* message_id -> accepted answers to that challenge
    probe             \* what a part that is run on its own is given, and answers

vars == <<game_channels, used_names, user_scores, current_letters, store, now,
          tasks, outcome, next_message_id, wins, probe>>

game_vars == <<game_channels, used_names, user_scores, current_letters>>

\* A variant of SleepSeconds: a sleep that outlasts the run.
SleepLong == MaxTime + 1

\* asyncio.sleep(3), line 592
SleepSeconds == 3

\* What search_anilist_character can meet on its one round trip.
Responses == {"character", "no_character", "bad_status", "timeout", "client_error"}

\* A variant of search_anilist_character: a response that is not 200 counts
\* as a character.
search_anilist_character_open(response) ==
    response \in {"character", "bad_status"}

\* search_anilist_character: TRUE when it returns a character, FALSE when it
\* returns None
search_anilist_character(response) ==
    response = "character"

\* The data save_data serializes: keys become strings.
json_data(gc, un, us, cl) ==
    [game_channels |-> [k \in {str(g) : g \in DOMAIN gc} |-> gc[int(k)]],
     used_names |-> [k \in {str(g) : g \in DOMAIN un} |-> un[int(k)]],
     user_scores |-> [k \in {str(g) : g \in DOMAIN us} |->
                        [i \in 1..Len(us[int(k)]) |->
                            <<str(us[int(k)][i][1]), us[int(k)][i][2]>>]],
     current_letters |-> [k \in {str(g) : g \in DOMAIN cl} |-> cl[int(k)]]]

\* A variant of save_data: the write runs before the handler's assignments,
\* and holds the maps as they were.
save_data_late(gc, un, us, cl) ==
    json_data(game_channels, used_names, user_scores, current_letters)

\* A variant of save_data: nothing is written.
save_data_skipped(gc, un, us, cl) == store

\* save_data, as the store it leaves
save_data(gc, un, us, cl) == json_data(gc, un, us, cl)

\* What becomes of anime_game_data.json in lines 81-85: open(..., 'w') and
\* json.dump write the whole document; when open fails the file is left as
\* it was, and when json.dump fails on the way the file holds the part that
\* was written. Both failures are swallowed by the bare except.
WriteOutcomes == {"written", "refused", "cut"}

Broken(how) == [broken |-> how]

\* A variant of save_data_file: a file that was cut is not written again.
save_data_file_stuck(written, data) ==
    IF written = "written" /\ store # Broken("partial") THEN data ELSE store

save_data_file(written, data) ==
    CASE written = "written" -> data
      [] written = "refused" -> store
      [] written = "cut" -> Broken("partial")

\* What a step answers to a message: the kind of reply and the guild, and
\* for a duplicate the text that was refused.
NoOutcome == [kind |-> "None", guild_id |-> 0, character_name |-> <<>>]

Outcome(kind, g, name) == [kind |-> kind, guild_id |-> g, character_name |-> name]

\* A suspended coroutine: the handler it runs, the await it is at, and the
\* locals it still reads (a local that is read no more is left out, and so
\* is the text of the name once it is normalized: only replies show it).
Task(kind, pc, g, u, norm, ts, mid, stale, wake, letter, ct) ==
    [kind |-> kind, pc |-> pc, guild_id |-> g, user_id |-> u,
     normalized_name |-> norm,
     challenge_timestamp |-> ts, challenge_id |-> mid, stale |-> stale,
     wake |-> wake, letter |-> letter, current_time |-> ct]

Spawn(t) == tasks (+) SetToBag({t})

Resume(t, u) == (tasks (-) SetToBag({t})) (+) SetToBag({u})

Finish(t) == tasks (-) SetToBag({t})

Running == BagToSet(tasks)

Init ==
    /\ game_channels = EmptyDict
    /\ used_names = EmptyDict
    /\ user_scores = EmptyDict
    /\ current_letters = EmptyDict
    /\ store = json_data(EmptyDict, EmptyDict, EmptyDict, EmptyDict)
    /\ now = 0
    /\ tasks = EmptyBag
    /\ outcome = NoOutcome
    /\ next_message_id = 1
    /\ wins = [m \in 1..MaxMessages |-> 0]
    /\ probe = [time_taken |-> 0, xp |-> 0]

\* The texts get_first_letter is given on its own: up to three characters
\* that are letters, a digit, an underscore, punctuation and spaces.
LetterChars == {"A", "l", "1", "_", "!", " "}

LetterTexts ==
    {<<>>} \cup {<<a>> : a \in LetterChars}
    \cup {<<a, b>> : a, b \in LetterChars}
    \cup {<<a, b, c>> : a, b, c \in LetterChars}

Texts == RawTexts \cup LetterTexts

\* message.content.strip() and what normalize_name, get_first_letter and
\* startswith give for it, for each text.
character_names == [content \in Texts |-> strip(content)]

normalized_names == [content \in Texts |-> normalize_name(strip(content))]

first_letters == [content \in Texts |-> get_first_letter(strip(content))]

commands == [content \in Texts |-> is_command(strip(content))]

(***************************************************************************)
(* on_message, up to its first await.                                      *)
(***************************************************************************)
\* dict.setdefault, as lines 474-480 do for the three maps
with_guild(d, g, empty) == IF g \in DOMAIN d THEN d ELSE DictSet(d, g, empty)

\* A variant of is_game_channel: every channel of a guild that has a game
\* channel takes submissions.
is_game_channel_any(g, ch) == g \in DOMAIN game_channels

\* lines 470-471
is_game_channel(g, ch) ==
    /\ g \in DOMAIN game_channels
    /\ DictGet(game_channels[g], "channel_id", 0) = ch

\* line 485
is_skipped(content) ==
    character_names[content] = <<>> \/ commands[content]

\* A variant of is_active: a posted letter takes answers until it is replaced.
is_active_when_posted(challenge) == "letter" \in DOMAIN challenge

\* line 489
is_active(challenge) == DictGet(challenge, "active", FALSE)

\* line 497
is_used(names, content) == normalized_names[content] \in names

\* A variant of is_wrong_letter: every letter passes.
is_wrong_letter_never(challenge, content) == FALSE

\* line 509
is_wrong_letter(challenge, content) ==
    first_letters[content] # challenge["letter"]

\* A variant of on_message_result: the letter is checked before the name.
on_message_result_letter_first(g, ch, content) ==
    LET names == with_guild(used_names, g, {})[g]
        challenge == with_guild(current_letters, g, EmptyDict)[g]
    IN  IF ~is_game_channel(g, ch) THEN "not_game_channel"
        ELSE IF is_skipped(content) THEN "skipped"
        ELSE IF ~is_active(challenge) THEN "no_challenge"
        ELSE IF is_wrong_letter(challenge, content) THEN "wrong_letter"
        ELSE IF is_used(names, content) THEN "duplicate"
        ELSE "verify"

\* The checks of on_message in the order of the code; the result names the
\* first one that returns, or "verify" when the lookup is awaited.
on_message_result(g, ch, content) ==
    LET names == with_guild(used_names, g, {})[g]
        challenge == with_guild(current_letters, g, EmptyDict)[g]
    IN  IF ~is_game_channel(g, ch) THEN "not_game_channel"
        ELSE IF is_skipped(content) THEN "skipped"
        ELSE IF ~is_active(challenge) THEN "no_challenge"
        ELSE IF is_used(names, content) THEN "duplicate"
        ELSE IF is_wrong_letter(challenge, content) THEN "wrong_letter"
        ELSE "verify"

\* What the handler answers for each result: an embed, the typing
\* indicator of the lookup, or nothing.
reply_kind(result) ==
    CASE result = "duplicate" -> "RejectedDuplicate"
      [] result = "wrong_letter" -> "RejectedWrongLetter"
      [] result = "verify" -> "Verifying"
      [] OTHER -> "Ignored"

\* message.author is read after the lookup only (line 543); the handler
\* returns at once for a bot's message.
on_message(g, ch, content) ==
    LET result == on_message_result(g, ch, content)
    IN  /\ outcome' = Outcome(reply_kind(result), g,
                IF result = "duplicate" THEN character_names[content] ELSE <<>>)
        /\ IF result = "not_game_channel"
           THEN UNCHANGED <<used_names, user_scores, current_letters>>
           ELSE /\ used_names' = with_guild(used_names, g, {})
                /\ user_scores' = with_guild(user_scores, g, <<>>)
                /\ current_letters' = with_guild(current_letters, g, EmptyDict)
        /\ IF result = "verify"
           THEN /\ BagCardinality(tasks) < MaxTasks
                /\ \E u \in Users :
                     tasks' = Spawn(Task("on_message", "verify", g, u,
                                normalized_names[content],
                                current_letters[g]["timestamp"],
                                current_letters[g]["message_id"], FALSE,
                                0, "", 0))
           ELSE UNCHANGED tasks
        /\ UNCHANGED <<game_channels, store, now, next_message_id, wins, probe>>

(***************************************************************************)
(* on_message, from the answer of the lookup to the sleep.                 *)
(***************************************************************************)
\* A variant of add_score: the award is taken from the score.
add_score_deduct(scores, user_id, xp_gained) ==
    ItemSet(scores, user_id, ItemGet(scores, user_id, 0) - xp_gained)

\* A variant of add_score: the award is not added in the stretch that takes
\* the name.
add_score_later(scores, user_id, xp_gained) == scores

\* A variant of add_score: the award replaces the score.
add_score_overwrite(scores, user_id, xp_gained) ==
    ItemSet(scores, user_id, xp_gained)

\* lines 544-546
add_score(scores, user_id, xp_gained) ==
    ItemSet(scores, user_id, ItemGet(scores, user_id, 0) + xp_gained)

on_message_saving(t, response, written) ==
    LET g == t.guild_id
        character_data == search_anilist_character(response)
        time_taken == now - t.challenge_timestamp
        xp_gained == calculate_xp(time_taken)
    IN  /\ t \in Running
        /\ t.kind = "on_message" /\ t.pc = "verify"
        /\ IF ~character_data
           THEN /\ outcome' = Outcome("RejectedNotVerified", g, <<>>)
                /\ tasks' = Finish(t)
                /\ UNCHANGED <<used_names, user_scores, current_letters,
                               store, wins>>
           ELSE /\ used_names' = [used_names EXCEPT
                        ![g] = @ \cup {t.normalized_name}]
                /\ user_scores' = [user_scores EXCEPT
                        ![g] = add_score(@, t.user_id, xp_gained)]
                /\ current_letters' = [current_letters EXCEPT
                        ![g] = DictSet(@, "active", FALSE)]
                /\ store' = save_data_file(written,
                             save_data(game_channels, used_names',
                                       user_scores', current_letters'))
                /\ outcome' = Outcome("Accepted", g, <<>>)
                /\ wins' = [wins EXCEPT ![t.challenge_id] = @ + 1]
                /\ tasks' = Resume(t, Task("on_message", "sleep", g, 0, <<>>,
                                            0, 0, FALSE, now + SleepSeconds, "", 0))
        /\ UNCHANGED <<game_channels, now, next_message_id, probe>>

\* on_message from line 522 on, when the file is written
on_message_verified(t, response) == on_message_saving(t, response, "written")

(***************************************************************************)
(* send_new_letter: up to channel.send, and after it.                      *)
(***************************************************************************)
\* A variant of get_random_letter: the letter is drawn in upper case.
get_random_letter_upper == {"A"}

\* get_random_letter
get_random_letter == Letters

send_new_letter_call(t) ==
    /\ t \in Running
    /\ \/ t.pc = "sleep" /\ now >= t.wake
       \/ t.pc = "respond"
       \/ t.pc = "edit" /\ t.guild_id \in DOMAIN game_channels
    /\ next_message_id <= MaxMessages
    /\ \E letter \in get_random_letter :
         tasks' = Resume(t, Task("send_new_letter", "send", t.guild_id, 0,
                                 <<>>, 0, next_message_id, FALSE, 0, letter, now))
    /\ next_message_id' = next_message_id + 1
    /\ outcome' = NoOutcome
    /\ UNCHANGED <<game_vars, store, now, wins, probe>>

send_new_letter_saving(t, written) ==
    /\ t \in Running
    /\ t.pc = "send"
    /\ current_letters' = DictSet(current_letters, t.guild_id,
            [letter |-> t.letter, timestamp |-> t.current_time,
             message_id |-> t.challenge_id, active |-> TRUE])
    /\ store' = save_data_file(written,
                 save_data(game_channels, used_names, user_scores,
                           current_letters'))
    /\ tasks' = Finish(t)
    /\ outcome' = NoOutcome
    /\ UNCHANGED <<game_channels, used_names, user_scores, now, next_message_id, wins, probe>>

\* send_new_letter after channel.send, when the file is written
send_new_letter_store(t) == send_new_letter_saving(t, "written")

(***************************************************************************)
(* The slash commands.                                                     *)
(***************************************************************************)
\* A variant of set_channel: binding again makes the state of the guild anew.
set_channel_reinit(g, ch) ==
    /\ BagCardinality(tasks) < MaxTasks
    /\ game_channels' = DictSet(game_channels, g, DictSet(EmptyDict, "channel_id", ch))
    /\ used_names' = DictSet(used_names, g, {})
    /\ user_scores' = DictSet(user_scores, g, <<>>)
    /\ current_letters' = DictSet(current_letters, g, EmptyDict)
    /\ store' = save_data(game_channels', used_names', user_scores',
                          current_letters')
    /\ tasks' = Spawn(Task("set_channel", "respond", g, 0, <<>>,
                           0, 0, FALSE, 0, "", 0))
    /\ outcome' = NoOutcome
    /\ UNCHANGED <<now, next_message_id, wins, probe>>

\* A variant of set_channel: the channel is bound and no letter is posted.
set_channel_no_letter(g, ch) ==
    /\ game_channels' = DictSet(game_channels, g,
            DictSet(DictGet(game_channels, g, EmptyDict), "channel_id", ch))
    /\ IF g \notin DOMAIN game_channels
       THEN /\ used_names' = DictSet(used_names, g, {})
            /\ user_scores' = DictSet(user_scores, g, <<>>)
            /\ current_letters' = DictSet(current_letters, g, EmptyDict)
       ELSE UNCHANGED <<used_names, user_scores, current_letters>>
    /\ store' = save_data(game_channels', used_names', user_scores',
                          current_letters')
    /\ outcome' = NoOutcome
    /\ UNCHANGED <<tasks, now, next_message_id, wins, probe>>

\* set_channel up to its first await, lines 252-283
set_channel_saving(g, ch, written) ==
    /\ BagCardinality(tasks) < MaxTasks
    /\ game_channels' = DictSet(game_channels, g,
            DictSet(DictGet(game_channels, g, EmptyDict), "channel_id", ch))
    /\ IF g \notin DOMAIN game_channels
       THEN /\ used_names' = DictSet(used_names, g, {})
            /\ user_scores' = DictSet(user_scores, g, <<>>)
            /\ current_letters' = DictSet(current_letters, g, EmptyDict)
       ELSE UNCHANGED <<used_names, user_scores, current_letters>>
    /\ store' = save_data_file(written,
                 save_data(game_channels', used_names', user_scores',
                           current_letters'))
    /\ tasks' = Spawn(Task("set_channel", "respond", g, 0, <<>>,
                           0, 0, FALSE, 0, "", 0))
    /\ outcome' = NoOutcome
    /\ UNCHANGED <<now, next_message_id, wins, probe>>

\* set_channel, when the file is written
set_channel(g, ch) == set_channel_saving(g, ch, "written")

\* A variant of new_letter: an open challenge does not stop the command.
new_letter_unguarded(g) ==
    /\ BagCardinality(tasks) < MaxTasks
    /\ g \in DOMAIN game_channels
    /\ tasks' = Spawn(Task("new_letter", "respond", g, 0, <<>>,
                           0, 0, FALSE, 0, "", 0))
    /\ outcome' = NoOutcome
    /\ UNCHANGED <<game_vars, store, now, next_message_id, wins, probe>>

\* lines 289-314
new_letter(g) ==
    /\ BagCardinality(tasks) < MaxTasks
    /\ g \in DOMAIN game_channels
    /\ ~(g \in DOMAIN current_letters
         /\ DictGet(current_letters[g], "active", FALSE))
    /\ tasks' = Spawn(Task("new_letter", "respond", g, 0, <<>>,
                           0, 0, FALSE, 0, "", 0))
    /\ outcome' = NoOutcome
    /\ UNCHANGED <<game_vars, store, now, next_message_id, wins, probe>>

reset_game(g) ==
    /\ BagCardinality(tasks) < MaxTasks
    /\ tasks' = Spawn(Task("reset_game", "confirm", g, 0, <<>>,
                           0, 0, FALSE, 0, "", 0))
    /\ outcome' = NoOutcome
    /\ UNCHANGED <<game_vars, store, now, next_message_id, wins, probe>>

\* How many coroutines of the set S the bag B holds.
RECURSIVE copies(_, _)
copies(B, S) ==
    IF S = {} THEN 0
    ELSE LET x == CHOOSE y \in S : TRUE IN B[x] + copies(B, S \ {x})

\* The submissions of guild g that await their lookup are marked: a reset
\* was confirmed after their checks.
overtaken(B, g) ==
    LET mark(x) == IF x.pc = "verify" /\ x.guild_id = g
                   THEN [x EXCEPT !.stale = TRUE] ELSE x
    IN  [y \in {mark(x) : x \in BagToSet(B)} |->
            copies(B, {x \in BagToSet(B) : mark(x) = y})]

\* A variant of cleared: the entries of all guilds are emptied.
cleared_all(d, g, empty) == [h \in DOMAIN d |-> empty]

\* A variant of cleared: the entry of the guild is kept.
cleared_kept(d, g, empty) == d

\* dict.clear() and set.clear() under "if guild_id in ..."
cleared(d, g, empty) == IF g \in DOMAIN d THEN [d EXCEPT ![g] = empty] ELSE d

reset_game_confirmed(t) ==
    /\ t \in Running
    /\ t.kind = "reset_game" /\ t.pc = "confirm"
    /\ used_names' = cleared(used_names, t.guild_id, {})
    /\ user_scores' = cleared(user_scores, t.guild_id, <<>>)
    /\ current_letters' = cleared(current_letters, t.guild_id, EmptyDict)
    /\ store' = save_data(game_channels, used_names', user_scores',
                          current_letters')
    /\ tasks' = overtaken(IF t.guild_id \in DOMAIN game_channels
                          THEN Resume(t, [t EXCEPT !.pc = "edit"])
                          ELSE Finish(t), t.guild_id)
    /\ outcome' = NoOutcome
    /\ UNCHANGED <<game_channels, now, next_message_id, wins, probe>>

\* A variant of reset_game_cancelled: the data are cleared all the same.
reset_game_cancelled_clears(t) == reset_game_confirmed(t)

\* the Cancel button, or the 30 s timeout of ConfirmView
reset_game_cancelled(t) ==
    /\ t \in Running
    /\ t.kind = "reset_game" /\ t.pc = "confirm"
    /\ tasks' = Finish(t)
    /\ outcome' = NoOutcome
    /\ UNCHANGED <<game_vars, store, now, next_message_id, wins, probe>>

\* time passes
Tick(d) ==
    /\ now + d <= MaxTime
    /\ now' = now + d
    /\ outcome' = NoOutcome
    /\ UNCHANGED <<game_vars, store, tasks, next_message_id, wins, probe>>

Next ==
    \/ \E g \in Guilds, ch \in Channels, content \in RawTexts :
         on_message(g, ch, content)
    \/ \E t \in Running, response \in Responses : on_message_verified(t, response)
    \/ \E t \in Running : send_new_letter_call(t)
    \/ \E t \in Running : send_new_letter_store(t)
    \/ \E g \in Guilds, ch \in Channels : set_channel(g, ch)
    \/ \E g \in Guilds : new_letter(g)
    \/ \E g \in Guilds : reset_game(g)
    \/ \E t \in Running : reset_game_confirmed(t)
    \/ \E t \in Running : reset_game_cancelled(t)
    \/ \E d \in TickSteps : Tick(d)

Spec == Init /\ [][Next]_vars

(***************************************************************************)
(* The event loop resumes a coroutine whose await is over (the sleep has   *)
(* run out, channel.send has returned), and time passes.                   *)
(***************************************************************************)
Fairness ==
    /\ WF_vars(\E d \in TickSteps : Tick(d))
    /\ WF_vars(\E t \in Running : send_new_letter_call(t))
    /\ WF_vars(\E t \in Running : send_new_letter_store(t))

SpecLive == Spec /\ Fairness

(***************************************************************************)
(* calculate_xp on its own: a response time is drawn, and scored.          *)
(***************************************************************************)
ElapsedTimes == (0 - 5)..MaxElapsed

InitXP ==
    /\ game_channels = EmptyDict
    /\ used_names = EmptyDict
    /\ user_scores = EmptyDict
    /\ current_letters = EmptyDict
    /\ store = json_data(EmptyDict, EmptyDict, EmptyDict, EmptyDict)
    /\ now = 0
    /\ tasks = EmptyBag
    /\ outcome = NoOutcome
    /\ next_message_id = 1
    /\ wins = [m \in 1..MaxMessages |-> 0]
    /\ probe \in [time_taken : ElapsedTimes, xp : {0}]

score_probe ==
    /\ probe.xp = 0
    /\ probe' = [probe EXCEPT !.xp = calculate_xp(probe.time_taken)]
    /\ UNCHANGED <<game_vars, store, now, tasks, outcome, next_message_id, wins>>

NextXP == score_probe

SpecXP == InitXP /\ [][NextXP]_vars

(***************************************************************************)
(* The data across restarts: save_data writes anime_game_data.json, and    *)
(* load_data, which __init__ calls, reads ANIME_GAME_DATA and the file.    *)
(* Here store is the file, probe.ANIME_GAME_DATA is the value the variable *)
(* has when a process starts (what save_data assigns to os.environ, line   *)
(* 78, is gone with the process that assigned it), and probe.starts counts *)
(* the processes that have been started after the first.                   *)
(***************************************************************************)
\* os.getenv gives None
Unset == Broken("unset")

\* open raises FileNotFoundError
Missing == Broken("missing")

\* a text of length 0
EmptyText == Broken("empty")

\* a text that stops before the end of the document
Partial == Broken("partial")

\* int(k) returns
is_int(k) == k \in {"1", "2"}

\* {int(k): v for k, v in d.items()}, and set(v) for a list that is held
\* as the set of its elements
load_map(d) == [g \in {int(k) : k \in DOMAIN d} |-> d[str(g)]]

\* lines 53-56
load_scores(d) ==
    [g \in {int(k) : k \in DOMAIN d} |->
        [i \in 1..Len(d[str(g)]) |->
            <<int(d[str(g)][i][1]), d[str(g)][i][2]>>]]

\* The four maps after __init__ and load_data: a map is assigned when its
\* comprehension returns, in the order of lines 51-57, and an exception
\* leaves the maps that follow as __init__ made them.
load_data(data_str, file) ==
    LET source == IF data_str \notin {Unset, EmptyText} THEN data_str ELSE file
        decoded == source \notin {EmptyText, Partial}
        data == IF source = Missing
                THEN json_data(EmptyDict, EmptyDict, EmptyDict, EmptyDict)
                ELSE source
        gc == decoded /\ \A k \in DOMAIN data.game_channels : is_int(k)
        un == gc /\ \A k \in DOMAIN data.used_names : is_int(k)
        us == /\ un
              /\ \A k \in DOMAIN data.user_scores :
                   /\ is_int(k)
                   /\ \A i \in 1..Len(data.user_scores[k]) :
                        is_int(data.user_scores[k][i][1])
        cl == us /\ \A k \in DOMAIN data.current_letters : is_int(k)
    IN  [game_channels |-> IF gc THEN load_map(data.game_channels) ELSE EmptyDict,
         used_names |-> IF un THEN load_map(data.used_names) ELSE EmptyDict,
         user_scores |-> IF us THEN load_scores(data.user_scores) ELSE EmptyDict,
         current_letters |-> IF cl THEN load_map(data.current_letters)
                             ELSE EmptyDict]

\* What save_data wrote after a win in guild 1, in an earlier run (the
\* challenge message of that run has the id 0).
Snapshot ==
    json_data(DictSet(EmptyDict, 1, DictSet(EmptyDict, "channel_id", 1)),
              DictSet(EmptyDict, 1, {<<"a", " ", "l">>}),
              DictSet(EmptyDict, 1, <<<<1, calculate_xp(0)>>>>),
              DictSet(EmptyDict, 1, [letter |-> "a", timestamp |-> 0,
                                     message_id |-> 0, active |-> FALSE]))

\* The same document with a key of used_names that is no number.
HalfValid == [Snapshot EXCEPT !.used_names = [k \in {"x"} |-> {}]]

StoredFiles == {Missing, EmptyText, Partial, Snapshot, HalfValid}

EnvValues == {Unset, EmptyText, Snapshot}

StoreGuilds == {1}

StoreChannels == {1}

\* __init__, lines 14-29
start(data_str, file) ==
    LET loaded == load_data(data_str, file)
    IN  /\ game_channels' = loaded.game_channels
        /\ used_names' = loaded.used_names
        /\ user_scores' = loaded.user_scores
        /\ current_letters' = loaded.current_letters
        /\ tasks' = EmptyBag
        /\ outcome' = NoOutcome

InitStore ==
    \E file \in StoredFiles, data_str \in EnvValues :
        LET loaded == load_data(data_str, file)
        IN  /\ game_channels = loaded.game_channels
            /\ used_names = loaded.used_names
            /\ user_scores = loaded.user_scores
            /\ current_letters = loaded.current_letters
            /\ store = file
            /\ probe = [ANIME_GAME_DATA |-> data_str, starts |-> 0]
            /\ now = 0
            /\ tasks = EmptyBag
            /\ outcome = NoOutcome
            /\ next_message_id = 1
            /\ wins = [m \in 1..MaxMessages |-> 0]

\* The process ends between two stretches and a new one starts.
restart ==
    /\ probe.starts < MaxStarts
    /\ start(probe.ANIME_GAME_DATA, store)
    /\ probe' = [probe EXCEPT !.starts = @ + 1]
    /\ UNCHANGED <<store, now, next_message_id, wins>>

\* The process ends while save_data writes the file, after open(..., 'w')
\* has emptied it (line 82) and before json.dump has written all of it
\* (line 83), and a new one starts.
kill_during_save(left) ==
    /\ left \in {EmptyText, Partial}
    /\ probe.starts < MaxStarts
    /\ store' = left
    /\ start(probe.ANIME_GAME_DATA, left)
    /\ probe' = [probe EXCEPT !.starts = @ + 1]
    /\ UNCHANGED <<now, next_message_id, wins>>

\* The text and the answers of AniList that a run about the file needs.
StoreTexts == {<<"A", " ", "l">>}

StoreResponses == {"character", "no_character"}

NextStore ==
    \/ \E g \in StoreGuilds, ch \in StoreChannels, content \in StoreTexts :
         on_message(g, ch, content)
    \/ \E t \in Running, response \in StoreResponses, written \in WriteOutcomes :
         on_message_saving(t, response, written)
    \/ \E t \in Running : send_new_letter_call(t)
    \/ \E t \in Running, written \in WriteOutcomes :
         send_new_letter_saving(t, written)
    \/ \E g \in StoreGuilds, ch \in StoreChannels, written \in WriteOutcomes :
         set_channel_saving(g, ch, written)
    \/ restart
    \/ \E left \in {EmptyText, Partial} : kill_during_save(left)

SpecStore == InitStore /\ [][NextStore]_vars

(***************************************************************************)
(* The commands that read the scores: leaderboard and stats.  They are     *)
(* run on a guild with up to MaxPlayers scores; probe is the command, its  *)
(* argument and what it answers.                                           *)
(***************************************************************************)
\* line 335
per_page == 10

max(a, b) == IF a >= b THEN a ELSE b

min(a, b) == IF a <= b THEN a ELSE b

\* A variant of insert_sorted: an item goes before the items of the same XP.
insert_sorted_before(sorted, item) ==
    LET ahead == {i \in 1..Len(sorted) : sorted[i][2] > item[2]}
        n == Cardinality(ahead)
    IN  SubSeq(sorted, 1, n) \o <<item>> \o SubSeq(sorted, n + 1, Len(sorted))

\* sorted(..., key=lambda x: x[1], reverse=True) is stable: an item comes
\* after the items of greater or equal XP that precede it in the dict.
insert_sorted(sorted, item) ==
    LET ahead == {i \in 1..Len(sorted) : sorted[i][2] >= item[2]}
        n == Cardinality(ahead)
    IN  SubSeq(sorted, 1, n) \o <<item>> \o SubSeq(sorted, n + 1, Len(sorted))

RECURSIVE sorted_users(_)
\* lines 328-332 and 383-387
sorted_users(items) ==
    IF items = <<>> THEN <<>>
    ELSE insert_sorted(sorted_users(SubSeq(items, 1, Len(items) - 1)),
                       items[Len(items)])

\* line 336
total_pages(count) == (count + per_page - 1) \div per_page

\* A variant of clamp_page: a page past the last one is taken as asked.
clamp_page_open(page, last) == max(1, page)

\* line 337
clamp_page(page, last) == max(1, min(page, last))

\* lines 339-341 and 349: the slice of the page, each item with the number
\* enumerate gives it
page_users(sorted, page) ==
    LET start_idx == (page - 1) * per_page
        end_idx == min(start_idx + per_page, Len(sorted))
    IN  [i \in 1..max(0, end_idx - start_idx) |->
            <<start_idx + i, sorted[start_idx + i][1], sorted[start_idx + i][2]>>]

\* A variant of rank_of: users of the same XP share a rank.
rank_of_shared(sorted, user_id) ==
    1 + Cardinality({i \in 1..Len(sorted) :
                        sorted[i][2] > ItemGet(sorted, user_id, 0)})

\* line 389
rank_of(sorted, user_id) ==
    IF user_id \in Keys(sorted)
    THEN CHOOSE i \in 1..Len(sorted) : sorted[i][1] = user_id
    ELSE 0

Answer(command, g, asked, answer, page, pages, lines, rank) ==
    [command |-> command, guild_id |-> g, asked |-> asked, answer |-> answer,
     page |-> page, total_pages |-> pages, lines |-> lines, rank |-> rank]

\* lines 319-367
leaderboard(g, page) ==
    /\ IF g \notin DOMAIN user_scores \/ user_scores[g] = <<>>
       THEN probe' = Answer("leaderboard", g, page, "no_scores", 0, 0, <<>>, 0)
       ELSE LET sorted == sorted_users(user_scores[g])
                pages == total_pages(Len(sorted))
                shown == clamp_page(page, pages)
            IN  probe' = Answer("leaderboard", g, page, "board", shown, pages,
                                page_users(sorted, shown), 0)
    /\ UNCHANGED <<game_vars, store, now, tasks, outcome, next_message_id, wins>>

\* lines 371-403
stats(g, user_id) ==
    /\ IF g \notin DOMAIN user_scores \/ user_id \notin Keys(user_scores[g])
       THEN probe' = Answer("stats", g, user_id, "not_played", 0, 0, <<>>, 0)
       ELSE LET sorted == sorted_users(user_scores[g])
            IN  probe' = Answer("stats", g, user_id, "stats", 0, 0,
                    <<<<0, user_id, ItemGet(user_scores[g], user_id, 0)>>>>,
                    rank_of(sorted, user_id))
    /\ UNCHANGED <<game_vars, store, now, tasks, outcome, next_message_id, wins>>

\* The users of the guild, the XP they can have, and the order in which
\* they scored first: every XP is a sum of awards of calculate_xp.
Players == 1..MaxPlayers

BoardXp ==
    {[u \in Players |-> calculate_xp(0)],
     [u \in Players |-> calculate_xp(MaxElapsed) * u],
     [u \in Players |-> calculate_xp(30) * ((u % 3) + 1)]}

Boards ==
    {[i \in 1..n |-> <<i, xp[i]>>] : n \in 0..MaxPlayers, xp \in BoardXp}
    \cup {[i \in 1..n |-> <<n + 1 - i, xp[n + 1 - i]>>] :
            n \in 0..MaxPlayers, xp \in BoardXp}

\* the page arguments
PageNumbers == (0 - 1)..(total_pages(MaxPlayers) + 1)

BoardGuilds == {1, 2}

InitBoard ==
    LET loaded == load_data(Unset, Snapshot)
    IN  /\ game_channels = loaded.game_channels
        /\ used_names = loaded.used_names
        /\ \E board \in Boards : user_scores = DictSet(EmptyDict, 1, board)
        /\ current_letters = loaded.current_letters
        /\ store = Snapshot
        /\ now = 0
        /\ tasks = EmptyBag
        /\ outcome = NoOutcome
        /\ next_message_id = 1
        /\ wins = [m \in 1..MaxMessages |-> 0]
        /\ probe = Answer("none", 0, 0, "none", 0, 0, <<>>, 0)

NextBoard ==
    \/ \E g \in BoardGuilds, page \in PageNumbers : leaderboard(g, page)
    \/ \E g \in BoardGuilds, user_id \in Players : stats(g, user_id)

SpecBoard == InitBoard /\ [][NextBoard]_vars

(***************************************************************************)
(* get_first_letter in on_message: a guild has an open challenge for the   *)
(* letter a, and a text is posted in its game channel.                     *)
(***************************************************************************)
InitLetter ==
    /\ game_channels = DictSet(EmptyDict, 1, DictSet(EmptyDict, "channel_id", 1))
    /\ used_names = DictSet(EmptyDict, 1, {})
    /\ user_scores = DictSet(EmptyDict, 1, <<>>)
    /\ current_letters = DictSet(EmptyDict, 1,
            [letter |-> "a", timestamp |-> 0, message_id |-> 1, active |-> TRUE])
    /\ store = json_data(game_channels, used_names, user_scores, current_letters)
    /\ now = 0
    /\ tasks = EmptyBag
    /\ outcome = NoOutcome
    /\ next_message_id = 2
    /\ wins = [m \in 1..MaxMessages |-> 0]
    /\ \E content \in LetterTexts : probe = [content |-> content]

NextLetter ==
    \/ on_message(1, 1, probe.content)
    \/ \E t \in Running, response \in StoreResponses :
         on_message_verified(t, response)

SpecLetter == InitLetter /\ [][NextLetter]_vars

(***************************************************************************)
(* The claims.                                                             *)
(***************************************************************************)
\* The submissions of guild g that await their lookup.
verifying(g) ==
    {t \in Running : t.kind = "on_message" /\ t.pc = "verify" /\ t.guild_id = g}

\* The lookups in flight.
Lookups == copies(tasks, UNION {verifying(g) : g \in Guilds})

\* The checks of the pipeline, as the specification words them.
Configured(g, ch) ==
    g \in DOMAIN game_channels /\ game_channels[g]["channel_id"] = ch

Open(g) ==
    /\ g \in DOMAIN current_letters
    /\ "active" \in DOMAIN current_letters[g]
    /\ current_letters[g]["active"]

EmptyOrCommand(content) ==
    LET text == character_names[content]
    IN  \/ text = <<>>
        \/ text[1] = "/"
        \/ Len(text) >= 2 /\ text[1] = "!" /\ text[2] = "!"

Duplicate(g, content) == normalized_names[content] \in used_names[g]

WrongLetter(g, content) ==
    first_letters[content] # current_letters[g]["letter"]

\* The state of the game and of its handlers, but for the clock and the
\* reply of the step.
Effects == <<game_vars, store, tasks, next_message_id, wins>>

\* C1: within a guild, a name whose normalized form was accepted before (and
\* not cleared by a reset since) is never accepted again, whatever the
\* interleaving of the submissions.
C1_DuplicateNeverAccepted ==
    [][\A t \in Running :
          (t.pc = "verify" /\ on_message_verified(t, "character"))
          => t.normalized_name \notin used_names[t.guild_id]]_vars

\* C2: at most one submission of a guild is between its duplicate check and
\* its state mutation, the wait for the lookup included.
C2_OneSubmissionPerGuild ==
    \A g \in Guilds : copies(tasks, verifying(g)) <= 1

\* C3: every challenge is won at most once.
C3_WonAtMostOnce ==
    \A m \in DOMAIN wins : wins[m] <= 1

\* C4: a submission that passed its checks before a confirmed reset and whose
\* lookup answers after it changes neither used_names nor user_scores nor
\* the challenge.
C4_ResetNotRaced ==
    [][\A t \in Running :
          (/\ t.pc = "verify" /\ t.stale
           /\ \E response \in Responses : on_message_verified(t, response))
          => UNCHANGED <<used_names, user_scores, current_letters>>]_vars

\* C5: a lookup that ends in a timeout, a transport error, a response that
\* is not 200 or no character rejects the submission as not verified and
\* leaves used_names, user_scores, the challenge and the store unchanged;
\* a submission is accepted only on a lookup that found a character.
C5_FailClosed ==
    [][/\ \A t \in Running : \A response \in Responses \ {"character"} :
            (t.pc = "verify" /\ on_message_verified(t, response))
            => /\ outcome'.kind = "RejectedNotVerified"
               /\ UNCHANGED <<game_vars, store, wins>>
       /\ outcome'.kind = "Accepted"
            => \E t \in Running :
                 t.pc = "verify" /\ on_message_verified(t, "character")]_vars

C5_Witness ==
    /\ outcome.kind = "RejectedNotVerified"
    /\ Open(outcome.guild_id)
    /\ used_names[outcome.guild_id] = {}

\* C6: the reply to a message is that of the first check it fails, in the
\* order channel and open challenge, empty text or command, duplicate,
\* letter (no message is answered otherwise); a lookup is issued exactly by
\* the steps that answer a message which passes them all, one at a time.
ExpectedReply(g, ch, content) ==
    IF ~Configured(g, ch) \/ ~Open(g) THEN "Ignored"
    ELSE IF EmptyOrCommand(content) THEN "Ignored"
    ELSE IF Duplicate(g, content) THEN "RejectedDuplicate"
    ELSE IF WrongLetter(g, content) THEN "RejectedWrongLetter"
    ELSE "Verifying"

C6_PipelineOrder ==
    [][/\ \A g \in Guilds, ch \in Channels, content \in RawTexts :
            (outcome'.guild_id = g
             /\ outcome'.kind # ExpectedReply(g, ch, content))
            => ~on_message(g, ch, content)
       /\ Lookups' = Lookups + 1 <=> outcome'.kind = "Verifying"
       /\ Lookups' <= Lookups + 1]_vars

\* A used name in another form whose first letter is not the required one
\* either: the duplicate check answers, since it comes first.
C6_Witness ==
    /\ outcome.kind = "RejectedDuplicate"
    /\ outcome.character_name = <<"fw_a", " ", " ", "L">>
    /\ Open(outcome.guild_id)
    /\ WrongLetter(outcome.guild_id, <<" ", "fw_a", " ", " ", "L", " ">>)

\* C7: a message that reaches the letter check (game channel, open
\* challenge, a text that is neither empty nor a command nor a used name)
\* and whose first letter is not the required one is rejected as a wrong
\* letter, and nothing changes: the challenge stays open.  (A step either
\* is such a rejection, or is the handling of no such message.)
C7_WrongLetterRejected ==
    [][\/ /\ outcome'.kind = "RejectedWrongLetter"
          /\ UNCHANGED <<Effects, now>>
       \/ \A g \in Guilds, ch \in Channels, content \in RawTexts :
            (/\ outcome'.guild_id = g
             /\ Configured(g, ch) /\ Open(g)
             /\ ~EmptyOrCommand(content)
             /\ ~Duplicate(g, content)
             /\ WrongLetter(g, content))
            => ~on_message(g, ch, content)]_vars

C7_Witness ==
    /\ outcome.kind = "RejectedWrongLetter"
    /\ Open(outcome.guild_id)

\* C8: a message for a guild with no game, in another channel than the
\* game channel, with no open challenge, with an empty text or with a
\* command prefix is ignored: nothing changes and no lookup is issued.
\* (A step either answers nothing and changes nothing, or is the handling
\* of no such message.)
C8_IgnoredMessage ==
    [][\/ /\ outcome'.kind = "Ignored"
          /\ UNCHANGED <<Effects, now>>
       \/ \A g \in Guilds, ch \in Channels, content \in RawTexts :
            (/\ outcome'.guild_id = g
             /\ ~Configured(g, ch) \/ ~Open(g) \/ EmptyOrCommand(content))
            => ~on_message(g, ch, content)]_vars

C8_Witness ==
    /\ outcome.kind = "Ignored"
    /\ outcome.guild_id \in DOMAIN game_channels
    /\ "active" \in DOMAIN current_letters[outcome.guild_id]
    /\ ~current_letters[outcome.guild_id]["active"]
    /\ \E t \in Running : t.pc = "sleep" /\ t.guild_id = outcome.guild_id

\* The threshold table of the scorer: the first row whose threshold is not
\* below the response time gives the XP, and the floor is for the rest.
XpTable ==
    <<<<10, 3000>>, <<20, 2000>>, <<30, 1500>>, <<60, 1000>>, <<300, 500>>,
      <<1800, 200>>>>

XpFloor == 50

RECURSIVE first_match(_, _)
first_match(table, elapsed) ==
    IF table = <<>> THEN XpFloor
    ELSE IF elapsed <= Head(table)[1] THEN Head(table)[2]
    ELSE first_match(Tail(table), elapsed)

ScoreFor(elapsed) == first_match(XpTable, elapsed)

\* C9: an accepted submission adds ScoreFor(now - the start of the challenge
\* it answered) to the score of its author, from 0 if the author had none,
\* and changes no other score.
C9_ScoreAdded ==
    [][\A t \in Running :
          (t.pc = "verify" /\ on_message_verified(t, "character"))
          => LET g == t.guild_id
                 xp == ScoreFor(now - t.challenge_timestamp)
             IN  /\ t.user_id \in Keys(user_scores'[g])
                 /\ ItemGet(user_scores'[g], t.user_id, 0)
                      = ItemGet(user_scores[g], t.user_id, 0) + xp
                 /\ \A u \in Users \ {t.user_id} :
                      /\ u \in Keys(user_scores'[g]) <=> u \in Keys(user_scores[g])
                      /\ ItemGet(user_scores'[g], u, 0)
                           = ItemGet(user_scores[g], u, 0)
                 /\ \A h \in DOMAIN user_scores \ {g} :
                      user_scores'[h] = user_scores[h]]_vars

\* An award of 2000 on top of a score of 3000.
C9_Witness ==
    /\ outcome.kind = "Accepted"
    /\ now = 11
    /\ \E i \in 1..Len(user_scores[outcome.guild_id]) :
         user_scores[outcome.guild_id][i][2] = 5000

C11_XpMonotone ==
    probe.xp # 0
    => /\ probe.xp \in Nat \ {0}
       /\ \A later \in ElapsedTimes :
            later >= probe.time_taken => calculate_xp(later) <= probe.xp

\* A response time just past the first threshold: the XP has dropped.
C11_Witness ==
    probe.time_taken = 11 /\ probe.xp = 2000

\* The XP a step awards to the author of the submission t.
Award(t) ==
    ItemGet(user_scores'[t.guild_id], t.user_id, 0)
        - ItemGet(user_scores[t.guild_id], t.user_id, 0)

MaxTier == 3000

\* C12, as stated: the first accepted answer to a challenge is awarded the
\* highest tier, however long it took.
C12_FirstAnswerMaxTier ==
    [][\A t \in Running :
          (/\ t.pc = "verify" /\ wins[t.challenge_id] = 0
           /\ on_message_verified(t, "character"))
          => Award(t) = MaxTier]_vars

\* C12, as the code has it: the first accepted answer to a challenge is
\* awarded by the time since the challenge was posted, like every other
\* answer; it gets the highest tier exactly when it came within 10 seconds.
C12_FirstAnswerByElapsed ==
    [][\A t \in Running :
          (/\ t.pc = "verify" /\ wins[t.challenge_id] = 0
           /\ on_message_verified(t, "character"))
          => /\ Award(t) = ScoreFor(now - t.challenge_timestamp)
             /\ Award(t) = MaxTier <=> now - t.challenge_timestamp <= 10]_vars

\* A first answer after 11 seconds: 2000 XP.
C12_Witness ==
    /\ outcome.kind = "Accepted"
    /\ now = 11
    /\ user_scores[outcome.guild_id] # <<>>
    /\ \A i \in 1..Len(user_scores[outcome.guild_id]) :
         user_scores[outcome.guild_id][i][2] = 2000
    /\ \A m \in DOMAIN wins : wins[m] <= 1

\* The step is the clearing of guild g's state by a confirmed reset.
ResetStep(g) ==
    \E t \in Running : t.guild_id = g /\ reset_game_confirmed(t)

\* C13: but for a confirmed reset of the guild, no step takes a name out of
\* the used names of a guild.
C13_UsedNamesGrow ==
    [][\A g \in DOMAIN used_names :
          \/ g \in DOMAIN used_names' /\ used_names[g] \subseteq used_names'[g]
          \/ ResetStep(g)]_vars

\* The channel of a guild was bound again (the command still has to answer)
\* and the used names of the guild are kept.
C13_Witness ==
    \E t \in Running :
        /\ t.kind = "set_channel" /\ t.pc = "respond"
        /\ used_names[t.guild_id] # {}

\* C14: every score is a non-negative integer, and but for a confirmed reset
\* of the guild no step lowers or removes a score.
C14_ScoresGrow ==
    /\ [](\A g \in DOMAIN user_scores : \A i \in 1..Len(user_scores[g]) :
            user_scores[g][i][2] \in Nat)
    /\ [][\A g \in DOMAIN user_scores :
            \/ /\ g \in DOMAIN user_scores'
               /\ \A u \in Keys(user_scores[g]) :
                    /\ u \in Keys(user_scores'[g])
                    /\ ItemGet(user_scores'[g], u, 0)
                         >= ItemGet(user_scores[g], u, 0)
            \/ ResetStep(g)]_vars

\* Two users of a guild have a score: the second award left the first
\* user's score as it was.
C14_Witness ==
    /\ outcome.kind = "Accepted"
    /\ Len(user_scores[outcome.guild_id]) = 2

\* The challenge messages that are open in guild g.
OpenChallenges(g) ==
    {m \in 1..MaxMessages :
        Open(g) /\ DictGet(current_letters[g], "message_id", 0) = m}

LowercaseLetters ==
    {"a", "b", "c", "d", "e", "f", "g", "h", "i", "j", "k", "l", "m", "n",
     "o", "p", "q", "r", "s", "t", "u", "v", "w", "x", "y", "z"}

\* C16: the letter of a guild's challenge, when there is one, is one of the
\* lowercase letters a..z; a record without a letter is not open, and an
\* open challenge has its letter and its start timestamp.
C16_LetterLowercase ==
    \A g \in DOMAIN current_letters :
        LET challenge == current_letters[g]
        IN  /\ "letter" \in DOMAIN challenge
                 => challenge["letter"] \in LowercaseLetters
            /\ "letter" \notin DOMAIN challenge => ~Open(g)
            /\ Open(g) => {"letter", "timestamp"} \subseteq DOMAIN challenge

\* One guild has an open challenge with its letter, and another has a
\* record with no letter (an answer verified after a reset left it).
C16_Witness ==
    \E g, h \in DOMAIN current_letters :
        /\ Open(g) /\ current_letters[g]["letter"] = "a"
        /\ DOMAIN current_letters[h] = {"active"}

\* The cooldown between a win and the next letter, in seconds.
Cooldown == 3

\* Guild g is in the cooldown after a win, and the run is long enough for
\* the cooldown to run out.
InCooldown(g) ==
    /\ now + Cooldown <= MaxTime
    /\ \E t \in Running :
         t.kind = "on_message" /\ t.pc = "sleep" /\ t.guild_id = g

\* C17: an accepted answer closes the challenge of its guild, and a guild
\* in the cooldown after a win gets an open challenge again (as long as the
\* run has challenge messages left), when the event loop resumes the
\* handlers and time passes.
C17_ReopensAfterWin ==
    /\ [][\A g \in Guilds :
            (outcome'.kind = "Accepted" /\ outcome'.guild_id = g)
            => ~Open(g)']_vars
    /\ \A g \in Guilds :
         InCooldown(g) ~> (Open(g) \/ next_message_id > MaxMessages)

\* The letter after a win is posted and open: the guild has a used name and
\* the second challenge of the run, and its handlers have ended.
C17_Witness ==
    \E g \in DOMAIN current_letters :
        /\ Open(g) /\ current_letters[g]["message_id"] = 2
        /\ current_letters[g]["timestamp"] = 11
        /\ used_names[g] # {}
        /\ wins[1] = 1
        /\ tasks = EmptyBag

\* The command that bound the channel of guild g has still to post the
\* letter.
Binding(g) ==
    \E t \in Running :
        t.kind = "set_channel" /\ t.pc = "respond" /\ t.guild_id = g

\* C18: binding a channel for a guild with no state creates the state
\* (channel set, no used names, no scores) and goes on to post a letter;
\* send_new_letter draws the letter and takes the time, and when it ends the
\* guild's challenge is open with that letter and that time; so the guild
\* gets an open challenge (as long as the run has challenge messages left).
C18_BindOpensChallenge ==
    /\ [][\A g \in Guilds, ch \in Channels :
            (g \notin DOMAIN game_channels /\ set_channel(g, ch))
            => /\ game_channels'[g]["channel_id"] = ch
               /\ used_names'[g] = {}
               /\ user_scores'[g] = <<>>
               /\ Binding(g)']_vars
    /\ [][\A t \in Running :
            (t.kind = "set_channel" /\ send_new_letter_call(t))
            => \E u \in Running' :
                 /\ u.pc = "send" /\ u.guild_id = t.guild_id
                 /\ u.letter \in LowercaseLetters
                 /\ u.current_time = now]_vars
    /\ [][\A t \in Running :
            send_new_letter_store(t)
            => /\ Open(t.guild_id)'
               /\ current_letters'[t.guild_id]["letter"] = t.letter
               /\ current_letters'[t.guild_id]["timestamp"] = t.current_time]_vars
    /\ \A g \in Guilds :
         Binding(g) ~> (Open(g) \/ next_message_id > MaxMessages)

\* The first binding of a guild has ended: its first challenge is open, and
\* it has no used names and no scores.
C18_Witness ==
    \E g \in DOMAIN game_channels :
        /\ DOMAIN game_channels = {g}
        /\ Open(g) /\ current_letters[g]["message_id"] = 1
        /\ used_names[g] = {} /\ user_scores[g] = <<>>
        /\ tasks = EmptyBag
        /\ next_message_id = 2

\* The reset of guild g is confirmed and has still to post the letter.
Resetting(g) ==
    \E t \in Running :
        t.kind = "reset_game" /\ t.pc = "edit" /\ t.guild_id = g

Complete(file) == "broken" \notin DOMAIN file

\* The four maps of the running process.
in_memory ==
    [game_channels |-> game_channels, used_names |-> used_names,
     user_scores |-> user_scores, current_letters |-> current_letters]

NothingLoaded ==
    [game_channels |-> EmptyDict, used_names |-> EmptyDict,
     user_scores |-> EmptyDict, current_letters |-> EmptyDict]

\* A process starts: the one that ran has ended, between two stretches or
\* in save_data.
Starting == restart \/ \E left \in {EmptyText, Partial} : kill_during_save(left)

\* No value of ANIME_GAME_DATA comes before the file.
FileIsRead == probe.ANIME_GAME_DATA \in {Unset, EmptyText}

\* C22: when the process ends while save_data writes, the file holds what
\* it held before or a whole new document: it is never left cut or empty.
C22_AtomicSave ==
    [][(\E left \in {EmptyText, Partial} : kill_during_save(left))
          => (store' = store \/ Complete(store'))]_vars

\* C23: when the store a starting process reads is missing, empty or
\* damaged, all four maps are empty once load_data has returned.
C23_DamagedStoreLoadsNothing ==
    [][(Starting /\ FileIsRead /\ store' \in StoredFiles \ {Snapshot})
          => in_memory' = NothingLoaded]_vars

\* C24: a process that starts after the running one has saved its maps has
\* the same maps: the same channel, used names, scores and challenge for
\* every guild.
C24_RoundTrip ==
    [][(restart /\ store = json_data(game_channels, used_names, user_scores,
                                     current_letters))
          => in_memory' = in_memory]_vars

\* C25: when the write of an accepted submission fails, the step still
\* answers Accepted and the maps keep the name, the award and the closed
\* challenge; and every later save that succeeds leaves in the file the
\* maps as they then are.
C25_FailedWriteAbsorbed ==
    [][/\ \A t \in Running, written \in WriteOutcomes \ {"written"} :
            on_message_saving(t, "character", written)
            => /\ outcome'.kind = "Accepted"
               /\ t.normalized_name \in used_names'[t.guild_id]
               /\ Award(t) >= XpFloor
               /\ ~is_active(current_letters'[t.guild_id])
               /\ store' # json_data(game_channels', used_names',
                                     user_scores', current_letters')
       /\ ((\/ \E t \in Running :
                \/ on_message_saving(t, "character", "written")
                \/ send_new_letter_saving(t, "written")
            \/ \E g \in StoreGuilds, ch \in StoreChannels :
                set_channel_saving(g, ch, "written"))
           => store' = json_data(game_channels', used_names', user_scores',
                                 current_letters'))]_vars

\* The file refused the write of a win: the reply is Accepted, the maps have
\* the name and the award, and the file is the document of before, without
\* them.
C25_Witness ==
    /\ outcome.kind = "Accepted"
    /\ probe.starts = 0
    /\ used_names[1] = {<<"a", " ", "l">>}
    /\ user_scores[1] = <<<<1, calculate_xp(0)>>>>
    /\ ~is_active(current_letters[1])
    /\ Complete(store)
    /\ store.used_names["1"] = {}
    /\ store.user_scores["1"] = <<>>
    /\ is_active(store.current_letters["1"])

\* The scores of the guild a command was run in.
scores_of(g) == DictGet(user_scores, g, <<>>)

\* User v stands before user u: v has more XP, or the same XP and scored
\* first before u did.
stands_before(items, v, u) ==
    LET at(w) == CHOOSE i \in 1..Len(items) : items[i][1] = w
    IN  \/ items[at(v)][2] > items[at(u)][2]
        \/ items[at(v)][2] = items[at(u)][2] /\ at(v) < at(u)

\* The place of user u: one more than the users that stand before u.
place(items, u) ==
    1 + Cardinality({v \in Keys(items) : stands_before(items, v, u)})

\* The lines of all the pages of the leaderboard of a guild.
all_lines(items) ==
    {<<p, k>> : p \in 1..total_pages(Len(items)), k \in 1..per_page}

line_at(items, pk) ==
    LET lines == page_users(sorted_users(items), pk[1])
    IN  IF pk[2] <= Len(lines) THEN lines[pk[2]] ELSE <<0, 0, 0>>

\* C26: the leaderboard orders the users by XP, the greater first, and
\* users of the same XP by who scored first: every line of the shown page
\* carries the place of its user and the user's XP, and over all pages
\* every user with a score has exactly one line.
C26_LeaderboardOrder ==
    (probe.command = "leaderboard" /\ probe.answer = "board")
    => LET items == scores_of(probe.guild_id)
       IN  /\ \A k \in 1..Len(probe.lines) :
                /\ probe.lines[k][2] \in Keys(items)
                /\ probe.lines[k][3] = ItemGet(items, probe.lines[k][2], 0)
                /\ probe.lines[k][1] = place(items, probe.lines[k][2])
           /\ \A u \in Keys(items) :
                Cardinality({pk \in all_lines(items) :
                                line_at(items, pk)[2] = u}) = 1

\* A page with two users of the same XP, of which the one with the greater
\* id scored first and stands first.
C26_Witness ==
    /\ probe.command = "leaderboard" /\ probe.answer = "board"
    /\ \E k \in 1..(Len(probe.lines) - 1) :
         /\ probe.lines[k][3] = probe.lines[k + 1][3]
         /\ probe.lines[k][2] > probe.lines[k + 1][2]

\* C27: the rank stats shows is the number the leaderboard shows for the
\* user, which is the user's place also among users of the same XP; a user
\* without a score is told so and gets no rank.
C27_RankIsPlace ==
    probe.command = "stats"
    => LET items == scores_of(probe.guild_id)
       IN  IF probe.asked \in Keys(items)
           THEN /\ probe.answer = "stats"
                /\ probe.rank = place(items, probe.asked)
                /\ \E pk \in all_lines(items) :
                     line_at(items, pk) =
                        <<probe.rank, probe.asked,
                          ItemGet(items, probe.asked, 0)>>
           ELSE probe.answer = "not_played" /\ probe.rank = 0

\* A user whose rank is pushed down by users of the same XP.
C27_Witness ==
    /\ probe.command = "stats" /\ probe.answer = "stats"
    /\ probe.rank > 1 + Cardinality({i \in 1..Len(scores_of(probe.guild_id)) :
                        scores_of(probe.guild_id)[i][2]
                          > ItemGet(scores_of(probe.guild_id), probe.asked, 0)})

\* C28: the page shown is the page asked for, brought into 1..last where
\* last is the number of pages of ten that hold the scores; it is not
\* empty, and the pages together hold the places 1..n, each once, ten to a
\* page.
C28_PageClamped ==
    (probe.command = "leaderboard" /\ probe.answer = "board")
    => LET items == scores_of(probe.guild_id)
           n == Len(items)
           last == CHOOSE q \in 1..n : (q - 1) * 10 < n /\ n <= q * 10
       IN  /\ probe.total_pages = last
           /\ probe.page \in 1..last
           /\ probe.asked < 1 => probe.page = 1
           /\ probe.asked > last => probe.page = last
           /\ probe.asked \in 1..last => probe.page = probe.asked
           /\ probe.lines # <<>>
           /\ Len(probe.lines) <= 10
           /\ \A i \in 1..n :
                {pk \in all_lines(items) : line_at(items, pk)[1] = i}
                  = {<<((i - 1) \div 10) + 1, ((i - 1) % 10) + 1>>}

\* A page past the last is asked for and the last page is shown, with the
\* one line it has.
C28_Witness ==
    /\ probe.command = "leaderboard" /\ probe.answer = "board"
    /\ probe.asked = 4 /\ probe.page = 3
    /\ Len(probe.lines) = 1
    /\ probe.lines[1][1] = 21

\* The places of the letters, and of the letters, digits and underscores,
\* of a name.
letters_at(name) == {i \in 1..Len(name) : name[i] \in Alpha}

word_chars_at(name) == {i \in 1..Len(name) : name[i] \in WordChars}

first_of(places) == CHOOSE i \in places : \A j \in places : i <= j

\* The step in which on_message reads the first letter of the text posted
\* (line 508).
reads_first_letter ==
    /\ on_message(1, 1, probe.content)
    /\ outcome'.kind \in {"RejectedWrongLetter", "Verifying"}

\* C29, as the specification has it: the first letter of a name is its
\* first alphabetic character in lower case, and the empty string when the
\* name has none; and a name without a letter is not accepted.
C29_EmptyWithoutLetter ==
    [][/\ reads_first_letter
          => LET name == strip(probe.content)
             IN  IF letters_at(name) # {}
                 THEN first_letters[probe.content]
                        = lower_char(name[first_of(letters_at(name))])
                 ELSE /\ first_letters[probe.content] = ""
                      /\ outcome'.kind = "RejectedWrongLetter"
       /\ \A t \in Running :
            on_message_verified(t, "character")
            => letters_at(strip(probe.content)) # {}]_vars

\* C29, as the code has it: the first letter of a name is its first
\* alphabetic character in lower case; for a name without a letter it is
\* the first digit or underscore of the name, and the empty string when
\* the name has none of these either; and a name without a letter is
\* refused for its letter and never accepted.
C29_FirstLetter ==
    [][/\ reads_first_letter
          => LET name == strip(probe.content)
             IN  IF letters_at(name) # {}
                 THEN first_letters[probe.content]
                        = lower_char(name[first_of(letters_at(name))])
                 ELSE /\ first_letters[probe.content]
                           = IF word_chars_at(name) # {}
                             THEN name[first_of(word_chars_at(name))]
                             ELSE ""
                      /\ outcome'.kind = "RejectedWrongLetter"
       /\ \A t \in Running :
            on_message_verified(t, "character")
            => letters_at(strip(probe.content)) # {}]_vars

\* A name of punctuation and a digit has been refused: its first letter is
\* the digit.
C29_Witness ==
    /\ outcome.kind = "RejectedWrongLetter"
    /\ probe.content = <<"!", "1", "!">>
    /\ first_letters[probe.content] = "1"

\* The steps that add a name to the used names of guild g, and those that
\* raise a score of guild g.
NameAdded(g) ==
    /\ g \in DOMAIN used_names /\ g \in DOMAIN used_names'
    /\ used_names'[g] \ used_names[g] # {}

ScoreRaised(g) ==
    /\ g \in DOMAIN user_scores /\ g \in DOMAIN user_scores'
    /\ \E u \in Users :
         ItemGet(user_scores'[g], u, 0) > ItemGet(user_scores[g], u, 0)

\* C31: the name, the XP, the closing of the challenge and the save of an
\* acceptance happen in one step: every step that adds a name to a guild or
\* raises a score of it is the acceptance of a submission of that guild,
\* and it leaves the name used, the score raised, the challenge closed and
\* the store equal to the maps, so that no other step sees or saves some of
\* the updates without the others.
C31_AcceptanceIsOneStep ==
    [][\A g \in Guilds :
          (NameAdded(g) \/ ScoreRaised(g))
          => /\ outcome' = Outcome("Accepted", g, <<>>)
             /\ \E t \in verifying(g) :
                  /\ t.normalized_name \in used_names'[g]
                  /\ ItemGet(user_scores'[g], t.user_id, 0)
                       > ItemGet(user_scores[g], t.user_id, 0)
                  /\ tasks'[[t EXCEPT !.pc = "sleep", !.user_id = 0,
                                      !.normalized_name = <<>>,
                                      !.challenge_timestamp = 0,
                                      !.challenge_id = 0, !.stale = FALSE,
                                      !.wake = now + SleepSeconds]] >= 1
             /\ ~Open(g)'
             /\ store' = json_data(game_channels', used_names',
                                   user_scores', current_letters')]_vars

\* Guild 2 has accepted a name while guild 1 holds a used name and a score.
C31_Witness ==
    /\ outcome = Outcome("Accepted", 2, <<>>)
    /\ 1 \in DOMAIN used_names /\ used_names[1] # {}
    /\ used_names[2] = {<<"a", " ", "l">>}
    /\ Len(user_scores[2]) = 1
    /\ ~Open(2)
    /\ store = json_data(game_channels, used_names, user_scores, current_letters)

\* C32: the challenge of a guild is not replaced while it is open: a step
\* taken when the challenge of a guild is open either leaves the challenge
\* as it is or leaves the guild without an open challenge (an acceptance
\* closes it, a confirmed reset clears it).
C32_OpenNotReplaced ==
    [][\A g \in Guilds :
          (Open(g) /\ Open(g)') => current_letters'[g] = current_letters[g]]_vars

\* What the four maps hold for guild g.
entry(d, g) == IF g \in DOMAIN d THEN {d[g]} ELSE {}

guild_state(g) ==
    <<entry(game_channels, g), entry(used_names, g), entry(user_scores, g),
      entry(current_letters, g)>>

\* The guilds a step works for: the guild it answers a message of, and the
\* guilds of the coroutines it starts, resumes or ends.
step_guilds ==
    {outcome'.guild_id}
    \cup {t.guild_id : t \in {u \in BagToSet(tasks) \cup BagToSet(tasks') :
                                CopiesIn(u, tasks) # CopiesIn(u, tasks')}}

\* C33: a step works for one guild, and the channel, the used names, the
\* scores and the challenge of every other guild are after the step what
\* they were before it.
C33_GuildIsolation ==
    [][/\ Cardinality(step_guilds \cap Guilds) <= 1
       /\ \A h \in Guilds :
            guild_state(h)' # guild_state(h) => h \in step_guilds]_vars

\* The reset of guild 1 has been confirmed and has cleared its challenge,
\* and the challenge of guild 2 is open as before.
C33_Witness ==
    /\ Resetting(1)
    /\ current_letters[1] = EmptyDict
    /\ Open(2)
    /\ DOMAIN used_names = {1, 2}

(***************************************************************************)
(* /resetgame: what the answer to the confirmation leaves alone.           *)
(***************************************************************************)
\* The resets of guild g that await the answer of ConfirmView, line 426.
confirming(g) ==
    {t \in Running : t.kind = "reset_game" /\ t.pc = "confirm" /\ t.guild_id = g}

\* The coroutines of /resetgame that take the step: each of its steps ends
\* an await, so the coroutine leaves the place it was at.
reset_steps ==
    {t \in Running : t.kind = "reset_game" /\ CopiesIn(t, tasks') < CopiesIn(t, tasks)}

\* C34: a reset that is cancelled, or whose confirmation runs out after 30 s,
\* changes nothing: the channel bindings, the used names, the scores, the
\* challenges and the stored data are as before, no letter is posted and no
\* letter is on its way, the coroutine just ends.  A confirmed reset, in all
\* of its steps up to the new letter, leaves the channel bindings as they are.
C34_CancelledResetChangesNothing ==
    [][/\ \A g \in Guilds : \A t \in confirming(g) :
            reset_game_cancelled(t)
            => /\ game_channels' = game_channels
               /\ used_names' = used_names
               /\ user_scores' = user_scores
               /\ current_letters' = current_letters
               /\ store' = store
               /\ next_message_id' = next_message_id
               /\ tasks' = Finish(t)
       /\ \A t \in reset_steps : game_channels' = game_channels
       /\ \A g \in Guilds : ResetStep(g) => game_channels' = game_channels]_vars

\* A reset of guild 1 awaits its answer while the guild has a channel, a used
\* name, a score and an open challenge, all of them stored.
C34_Witness ==
    /\ confirming(1) # {}
    /\ Configured(1, 1)
    /\ used_names[1] # {}
    /\ user_scores[1] # <<>>
    /\ Open(1)
    /\ store = json_data(game_channels, used_names, user_scores, current_letters)

(***************************************************************************)
(* /setchannel in a guild that has a game channel already.                 *)
(***************************************************************************)
\* The step is /setchannel of guild g up to its response: a coroutine of the
\* command comes to stand at line 283.
binds(g) ==
    \E t \in BagToSet(tasks') :
        /\ t.kind = "set_channel" /\ t.pc = "respond" /\ t.guild_id = g
        /\ CopiesIn(t, tasks') > CopiesIn(t, tasks)

\* C35: binding the game channel of a guild that has one already changes the
\* channel_id of that guild and nothing else: its used names and scores (and
\* those of the other guilds, and every challenge) are as before, the other
\* guilds keep their channels, the new binding is stored, and a letter is on
\* its way.  From then on a message is taken as a submission only in the
\* channel that is bound: in any other channel it is ignored and changes
\* nothing.
C35_RebindingKeepsGame ==
    [][/\ \A g \in Guilds :
            (g \in DOMAIN game_channels /\ binds(g))
            => /\ used_names' = used_names
               /\ user_scores' = user_scores
               /\ current_letters' = current_letters
               /\ DOMAIN game_channels' = DOMAIN game_channels
               /\ DOMAIN game_channels'[g] = {"channel_id"}
               /\ \A h \in DOMAIN game_channels \ {g} :
                    game_channels'[h] = game_channels[h]
               /\ store' = json_data(game_channels', used_names,
                                     user_scores, current_letters)
               /\ next_message_id' = next_message_id
       /\ \A g \in {outcome'.guild_id} \cap Guilds, ch \in Channels :
            ~Configured(g, ch)
            => \/ /\ outcome' = Outcome("Ignored", g, <<>>)
                  /\ UNCHANGED <<game_vars, tasks, store, next_message_id>>
               \/ \A content \in RawTexts : ~on_message(g, ch, content)]_vars

\* Guild 1 has just been bound to channel 2 and its letter is on its way; the
\* guild has a used name and a score from the channel it had before, and
\* the stored document holds them with the new channel.
C35_Witness ==
    /\ Binding(1)
    /\ Configured(1, 2)
    /\ used_names[1] # {}
    /\ user_scores[1] # <<>>
    /\ ~Open(1)
    /\ store = json_data(game_channels, used_names, user_scores, current_letters)

====
